---- MODULE Spec2Model ----
(***************************************************************************)
(* A model of python_example/main.py: the example script that points an    *)
(* OpenAI-compatible client at a local "cgpu serve" instance, issues one   *)
(* responses.create call and prints either the response text or an error.  *)
(*                                                                         *)
(* Text is modelled as a sequence of tokens: a token is one character of   *)
(* a variable text ("a", "-", "\n") or one literal chunk of the script's   *)
(* string constants.  The console (standard output) is the stream of       *)
(* tokens written so far; print(s) writes s and then a newline.            *)
(* Every statement of the script is one action; pc names the line that     *)
(* runs next.  Consecutive runs of the script are consecutive processes:   *)
(* a new process starts from the initial state, and the previous run's     *)
(* observable outcome is kept in prev for comparison.                      *)
(***************************************************************************)
EXTENDS Naturals, Sequences, FiniteSets

VARIABLES
    run,        \* number of the current run of the script (1, 2, ...)
    pc,         \* line of main.py that runs next; "blocked" inside create; "exit"
    client,     \* None, or Some(the client's configuration)
    requests,   \* the requests issued by this run (responses.create calls)
    response,   \* None, or Some(the value bound to `response` on line 12)
    exc,        \* None, or Some(the exception bound to `e` on line 23)
    uncaught,   \* None, or Some(the exception that reached the process level)
    stdout,     \* the console: tokens written to standard output by this run
    reply,      \* None, or Some(what the server answered to this run's call)
    prev        \* None, or Some(outcome of the previous run)

vars == <<run, pc, client, requests, response, exc, uncaught, stdout, reply, prev>>

(* Bounds of the model *)
MaxRuns == 2
MaxTextLen == 2
MaxMsgLen == 1

None == <<>>
Some(x) == <<x>>
Get(o) == o[1]

NL == "\n"
Chars == {"a", "-", NL}

RECURSIVE TextsOfLen(_)
TextsOfLen(n) ==
    IF n = 0 THEN {<<>>}
    ELSE {Append(t, c) : t \in TextsOfLen(n - 1), c \in Chars}

TextsUpTo(n) == UNION {TextsOfLen(k) : k \in 0..n}

(* "-" * 20 *)
SepLen == 20

RECURSIVE Repeat(_, _)
Repeat(s, n) == IF n = 0 THEN <<>> ELSE s \o Repeat(s, n - 1)

(* The script's string literals *)
SendingMsg == <<"Sending request to cgpu serve...">>
HeaderMsg == <<NL, "Response received:">>
Separator == Repeat(<<"-">>, SepLen)
ErrorPrefix == <<NL, "Error: ">>
HintMsg == <<NL, "Make sure 'cgpu serve' is running in another terminal.">>

BaseUrl == "http://localhost:8080/v1"
ApiKey == "unused"

(* OpenAI(base_url=..., api_key=...) *)
NewClient == [base_url |-> BaseUrl, api_key |-> ApiKey]

(* The keyword arguments of client.responses.create *)
RequestBody ==
    [model |-> "gemini-2.0-flash",
     instructions |-> "You are a coding assistant that talks like a pirate.",
     input |-> "How do I check if a Python object is an instance of a class?"]

(* Exceptions: a type and the args tuple (empty, or one message). *)
Messages == TextsUpTo(MaxMsgLen)
ArgsTuples == {<<>>} \cup {<<m>> : m \in Messages}
ExceptionsOf(types) == [type : types, args : ArgsTuples]

(* failures of the network call: connection refused, timeout, a response   *)
(* the client cannot parse, an error status returned by the server         *)
CallFailureTypes ==
    {"APIConnectionError", "APITimeoutError",
     "APIResponseValidationError", "InternalServerError"}
CallFailures == ExceptionsOf(CallFailureTypes)

(* failures of reading response.output_text on a malformed response *)
AttributeFailures == ExceptionsOf({"AttributeError"})

(* failures of building the client *)
ConstructionFailures == ExceptionsOf({"ValueError"})

(* The classes `except Exception` matches *)
ExceptionSubclasses ==
    CallFailureTypes \cup {"AttributeError", "ValueError"}

(* variant: the handler names one class instead of Exception *)
CatchesConnectionErrorOnly(e) == e.type = "APIConnectionError"

Catches(e) == e.type \in ExceptionSubclasses

(* str(e) as BaseException.__str__ computes it; f"{e}" formats with it *)
Str(e) == IF Len(e.args) = 0 THEN <<>> ELSE e.args[1]

(* Responses the call can return: output_text yields a text, or raises *)
OutputTexts == TextsUpTo(MaxTextLen)
WellFormed == {[output_text |-> [ok |-> t]] : t \in OutputTexts}
Malformed == {[output_text |-> [raises |-> e]] : e \in AttributeFailures}
Responses == WellFormed \cup Malformed

Raises(r) == "raises" \in DOMAIN r.output_text

(* print(s): s, then a newline *)
Println(out, s) == out \o s \o <<NL>>

(* The outcome of a finished run, as seen from outside the process *)
Outcome == [reply |-> reply, stdout |-> stdout, uncaught |-> uncaught]

(* A fresh interpreter process at line 1 *)
Init ==
    /\ run = 1
    /\ pc = "L5"
    /\ client = None
    /\ requests = <<>>
    /\ response = None
    /\ exc = None
    /\ uncaught = None
    /\ stdout = <<>>
    /\ reply = None
    /\ prev = None

(* raise e at a statement of the try block (lines 10-25) *)
RaiseInTry(e) ==
    IF Catches(e)
    THEN /\ exc' = Some(e)
         /\ pc' = "L24"
         /\ UNCHANGED uncaught
    ELSE /\ uncaught' = Some(e)
         /\ pc' = "exit"
         /\ UNCHANGED exc

(* raise e at a statement outside any try block: the process ends with it *)
RaiseAtTopLevel(e) ==
    /\ uncaught' = Some(e)
    /\ pc' = "exit"
    /\ UNCHANGED exc

(* lines 5-8: client = OpenAI(base_url=..., api_key=...) *)
ConstructClient ==
    /\ pc = "L5"
    /\ client' = Some(NewClient)
    /\ pc' = "L11"
    /\ UNCHANGED <<run, requests, response, exc, uncaught, stdout, reply, prev>>

(* variant: the constructor is called inside the try block *)
ConstructClientFailsInTry ==
    /\ pc = "L5"
    /\ \E e \in ConstructionFailures : RaiseInTry(e)
    /\ UNCHANGED <<run, client, requests, response, stdout, reply, prev>>

(* lines 5-8, the constructor raising *)
ConstructClientFails ==
    /\ pc = "L5"
    /\ \E e \in ConstructionFailures : RaiseAtTopLevel(e)
    /\ UNCHANGED <<run, client, requests, response, stdout, reply, prev>>

(* variant: the progress line is not written *)
PrintSendingSilent ==
    /\ pc = "L11"
    /\ pc' = "L12"
    /\ UNCHANGED <<run, client, requests, response, exc, uncaught, stdout, reply, prev>>

(* line 11 *)
PrintSending ==
    /\ pc = "L11"
    /\ stdout' = Println(stdout, SendingMsg)
    /\ pc' = "L12"
    /\ UNCHANGED <<run, client, requests, response, exc, uncaught, reply, prev>>

(* variant: the call passes one more keyword argument *)
CallCreateExtraField ==
    /\ pc = "L12"
    /\ requests' = Append(requests,
           [model |-> RequestBody.model,
            instructions |-> RequestBody.instructions,
            input |-> RequestBody.input,
            temperature |-> "0.2"])
    /\ pc' = "blocked"
    /\ UNCHANGED <<run, client, response, exc, uncaught, stdout, reply, prev>>

(* variant: the call replaces the client's key before sending *)
CallCreateSetsKey ==
    /\ pc = "L12"
    /\ requests' = Append(requests, RequestBody)
    /\ client' = Some([Get(client) EXCEPT !.api_key = ""])
    /\ pc' = "blocked"
    /\ UNCHANGED <<run, response, exc, uncaught, stdout, reply, prev>>

(* lines 12-16: the call is issued and the script blocks in it *)
CallCreate ==
    /\ pc = "L12"
    /\ requests' = Append(requests, RequestBody)
    /\ pc' = "blocked"
    /\ UNCHANGED <<run, client, response, exc, uncaught, stdout, reply, prev>>

(* line 12: the call returns a response, bound to `response` *)
CreateReturns ==
    /\ pc = "blocked"
    /\ \E r \in Responses :
          /\ response' = Some(r)
          /\ reply' = Some([response |-> r])
    /\ pc' = "L18"
    /\ UNCHANGED <<run, client, requests, exc, uncaught, stdout, prev>>

(* variant: a failed call is sent once more before the failure is raised *)
CreateFailsRetriesOnce ==
    /\ pc = "blocked"
    /\ IF Len(requests) < 2
       THEN /\ requests' = Append(requests, RequestBody)
            /\ UNCHANGED <<pc, exc, uncaught, reply>>
       ELSE /\ \E e \in CallFailures :
                  /\ reply' = Some([failure |-> e])
                  /\ RaiseInTry(e)
            /\ UNCHANGED requests
    /\ UNCHANGED <<run, client, response, stdout, prev>>

(* line 12: the call raises *)
CreateFails ==
    /\ pc = "blocked"
    /\ \E e \in CallFailures :
          /\ reply' = Some([failure |-> e])
          /\ RaiseInTry(e)
    /\ UNCHANGED <<run, client, requests, response, stdout, prev>>

(* line 18 *)
PrintHeader ==
    /\ pc = "L18"
    /\ stdout' = Println(stdout, HeaderMsg)
    /\ pc' = "L19"
    /\ UNCHANGED <<run, client, requests, response, exc, uncaught, reply, prev>>

(* line 19 *)
PrintSeparator ==
    /\ pc = "L19"
    /\ stdout' = Println(stdout, Separator)
    /\ pc' = "L20"
    /\ UNCHANGED <<run, client, requests, response, exc, uncaught, reply, prev>>

(* variant: the output text is printed with a trailing newline removed *)
PrintOutputTextStripped ==
    /\ pc = "L20"
    /\ ~Raises(Get(response))
    /\ LET t == Get(response).output_text.ok
           stripped == IF Len(t) > 0 /\ t[Len(t)] = NL
                       THEN SubSeq(t, 1, Len(t) - 1) ELSE t
       IN stdout' = Println(stdout, stripped)
    /\ pc' = "L21"
    /\ UNCHANGED <<run, client, requests, response, exc, uncaught, reply, prev>>

(* line 20: response.output_text is read and printed *)
PrintOutputText ==
    /\ pc = "L20"
    /\ ~Raises(Get(response))
    /\ stdout' = Println(stdout, Get(response).output_text.ok)
    /\ pc' = "L21"
    /\ UNCHANGED <<run, client, requests, response, exc, uncaught, reply, prev>>

(* line 20: reading response.output_text raises, nothing is printed *)
OutputTextFails ==
    /\ pc = "L20"
    /\ Raises(Get(response))
    /\ RaiseInTry(Get(response).output_text.raises)
    /\ UNCHANGED <<run, client, requests, response, stdout, reply, prev>>

(* line 21, the last statement of the try block *)
PrintClosingSeparator ==
    /\ pc = "L21"
    /\ stdout' = Println(stdout, Separator)
    /\ pc' = "exit"
    /\ UNCHANGED <<run, client, requests, response, exc, uncaught, reply, prev>>

(* line 24: print(f"\nError: {e}") *)
PrintError ==
    /\ pc = "L24"
    /\ stdout' = Println(stdout, ErrorPrefix \o Str(Get(exc)))
    /\ pc' = "L25"
    /\ UNCHANGED <<run, client, requests, response, exc, uncaught, reply, prev>>

(* variant: after the hint the script waits for input that never comes *)
PrintHintThenWaits ==
    /\ pc = "L25"
    /\ stdout' = Println(stdout, HintMsg)
    /\ pc' = "waiting"
    /\ UNCHANGED <<run, client, requests, response, exc, uncaught, reply, prev>>

(* line 25, the last statement of the handler *)
PrintHint ==
    /\ pc = "L25"
    /\ stdout' = Println(stdout, HintMsg)
    /\ pc' = "exit"
    /\ UNCHANGED <<run, client, requests, response, exc, uncaught, reply, prev>>

(* variant: output accumulates across runs *)
NextRunKeepsOutput ==
    /\ pc = "exit"
    /\ run < MaxRuns
    /\ run' = run + 1
    /\ prev' = Some(Outcome)
    /\ pc' = "L5"
    /\ client' = None
    /\ requests' = <<>>
    /\ response' = None
    /\ exc' = None
    /\ uncaught' = None
    /\ reply' = None
    /\ UNCHANGED stdout

(* The script is run again: a new process, nothing of the old one kept.    *)
(* prev records what the finished run showed.                              *)
NextRun ==
    /\ pc = "exit"
    /\ run < MaxRuns
    /\ run' = run + 1
    /\ prev' = Some(Outcome)
    /\ pc' = "L5"
    /\ client' = None
    /\ requests' = <<>>
    /\ response' = None
    /\ exc' = None
    /\ uncaught' = None
    /\ stdout' = <<>>
    /\ reply' = None

Next ==
    \/ ConstructClient
    \/ ConstructClientFails
    \/ PrintSending
    \/ CallCreate
    \/ CreateReturns
    \/ CreateFails
    \/ PrintHeader
    \/ PrintSeparator
    \/ PrintOutputText
    \/ OutputTextFails
    \/ PrintClosingSeparator
    \/ PrintError
    \/ PrintHint
    \/ NextRun

Spec == Init /\ [][Next]_vars

(* The interpreter runs the script to its end, and the blocking call       *)
(* returns or raises.  Nothing obliges anyone to run the script again.     *)
FairSpec == Spec /\ WF_vars(Next /\ pc # "exit")


(***************************************************************************)
(* Vocabulary of the properties.  The expected console text is written out *)
(* token by token, independently of the definitions above.                 *)
(***************************************************************************)
Range(s) == {s[i] : i \in 1..Len(s)}
IsPrefix(p, s) == Len(p) <= Len(s) /\ SubSeq(s, 1, Len(p)) = p
IsSuffix(p, s) ==
    Len(p) <= Len(s) /\ SubSeq(s, Len(s) - Len(p) + 1, Len(s)) = p

Dashes ==
    <<"-", "-", "-", "-", "-", "-", "-", "-", "-", "-",
      "-", "-", "-", "-", "-", "-", "-", "-", "-", "-">>

ProgressLine == <<"Sending request to cgpu serve...", "\n">>

(* the message of a failure: its single argument, empty when it has none *)
MessageOf(e) == IF e.args = <<>> THEN <<>> ELSE e.args[1]

ErrorBlock(e) ==
    <<"\n", "Error: ">> \o MessageOf(e) \o
    <<"\n", "\n", "Make sure 'cgpu serve' is running in another terminal.", "\n">>

SuccessBlock(t) ==
    <<"\n", "Response received:", "\n">> \o Dashes \o <<"\n">> \o
    t \o <<"\n">> \o Dashes \o <<"\n">>

HasErrorLine == "Error: " \in Range(stdout)
HasHeaderLine == "Response received:" \in Range(stdout)

Finished == pc = "exit"
CallFailed == reply # None /\ "failure" \in DOMAIN Get(reply)
CallReturned == reply # None /\ "response" \in DOMAIN Get(reply)
ConstructionFailed == Finished /\ client = None

(* C1: whenever the network call fails, the failure does not reach the     *)
(* process level, and the finished run's console ends with the line        *)
(* "Error: " + the failure's message followed by the remediation hint.     *)
C1_CallFailureReported ==
    CallFailed =>
        /\ uncaught = None
        /\ exc = Some(Get(reply).failure)
        /\ Finished => IsSuffix(ErrorBlock(Get(reply).failure), stdout)

C1_Witness ==
    /\ Finished
    /\ reply = Some([failure |->
                 [type |-> "APITimeoutError", args |-> << <<"a">> >>]])

(* C2 as stated: a failure of client construction is caught like a failure *)
(* of the call: error line and hint are printed, nothing is uncaught.      *)
C2_ConstructionFailureCaught ==
    ConstructionFailed =>
        /\ uncaught = None
        /\ exc # None
        /\ IsSuffix(ErrorBlock(Get(exc)), stdout)

(* C2 amended: a failure of client construction is not caught: the run     *)
(* ends with that failure uncaught, having printed nothing and sent no     *)
(* request; and construction failures are the only uncaught ones.          *)
C2_ConstructionFailureUncaught ==
    /\ ConstructionFailed =>
          /\ uncaught # None
          /\ Get(uncaught) \in ConstructionFailures
          /\ exc = None
          /\ stdout = <<>>
          /\ requests = <<>>
    /\ uncaught # None => ConstructionFailed

C2_Witness ==
    /\ ConstructionFailed
    /\ uncaught = Some([type |-> "ValueError", args |-> << <<"a">> >>])

(* C3: a finished run that ended without an uncaught failure shows either  *)
(* the complete success block and no error line, or the error line and     *)
(* hint and no part of the success block.                                  *)
C3_AllOrNothing ==
    (Finished /\ uncaught = None) =>
        \/ /\ \E t \in OutputTexts : stdout = ProgressLine \o SuccessBlock(t)
           /\ ~HasErrorLine
        \/ /\ exc # None
           /\ stdout = ProgressLine \o ErrorBlock(Get(exc))
           /\ ~HasHeaderLine

(* C4: when the call returned a response whose output text is T, the       *)
(* finished run's console ends with header, separator, T, separator, each  *)
(* on its line, T unchanged, nothing after the closing separator.          *)
C4_SuccessBlockPrinted ==
    (Finished /\ CallReturned /\ ~Raises(Get(reply).response)) =>
        /\ IsSuffix(SuccessBlock(Get(reply).response.output_text.ok), stdout)
        /\ ~HasErrorLine

C4_Witness ==
    /\ Finished
    /\ reply = Some([response |-> [output_text |-> [ok |-> <<"a", "-">>]]])

C6_RequestFields ==
    \A i \in 1..Len(requests) :
        /\ DOMAIN requests[i] = {"model", "instructions", "input"}
        /\ requests[i].model = "gemini-2.0-flash"
        /\ requests[i].instructions =
               "You are a coding assistant that talks like a pirate."
        /\ requests[i].input =
               "How do I check if a Python object is an instance of a class?"

C6_Witness == pc = "blocked" /\ Len(requests) = 1

(* C7: when a run and the run before it got the same reply from the server *)
(* (the same response, or the same failure), the two finished runs show    *)
(* the same console output and end the same way.                           *)
C7_SameReplySameOutput ==
    (Finished /\ prev # None /\ reply # None /\ Get(prev).reply = reply) =>
        /\ Get(prev).stdout = stdout
        /\ Get(prev).uncaught = uncaught

C7_Witness ==
    /\ Finished
    /\ prev # None
    /\ CallFailed
    /\ Get(prev).reply = reply
    /\ Len(stdout) > 2

C9_ClientConfigFixed ==
    client # None =>
        Get(client) = [base_url |-> "http://localhost:8080/v1",
                       api_key |-> "unused"]

C9_Witness == Finished /\ client # None /\ exc # None /\ CallReturned

(* C10: once the request is issued, or an error line is on the console,    *)
(* the console starts with the progress line.                              *)
C10_ProgressLineFirst ==
    (requests # <<>> \/ HasErrorLine) => IsPrefix(ProgressLine, stdout)

C10_Witness == pc = "L25" /\ HasErrorLine /\ CallFailed

====
